---- MODULE Spec2Model ----
(***************************************************************************)
(* Model of the S3 bucket resource of the AWS provider                     *)
(* (resource_aws_s3_bucket.go): the four lifecycle handlers Create, Update,*)
(* Read and Delete, the website reconciler updateWebsite, the tag helpers  *)
(* they call, and the S3 gateway they talk to.                             *)
(*                                                                         *)
(* A handler is a function from the world it starts in (remote S3 state,   *)
(* resource identity, observed tags) to the world it leaves, together with *)
(* the gateway calls it issued, in order, and the error it returned.       *)
(***************************************************************************)
EXTENDS Integers, Sequences, FiniteSets, TLC

VARIABLES remote, id, tags, last, prev

vars == <<remote, id, tags, last, prev>>

-----------------------------------------------------------------------------
(* Bounds and input domains *)

\* number of distinct tag keys a desired tag mapping may use
MaxTags == 2

\* positions, within one handler invocation, at which the gateway call may
\* fail with a transport/API error (0: no injected failure)
MaxCalls == 5

TagKeyOrder == <<"env", "team", "owner", "cost">>

Keys == {TagKeyOrder[i] : i \in 1..MaxTags}

\* the values a key may take: the first key has two, so that a put can
\* change the value of a key it keeps
ValsOf(k) == IF k = TagKeyOrder[1] THEN {"prod", "dev"} ELSE {"prod"}

Names == {"b1", "b2"}

Regions == {"us-east-1", "eu-west-1"}

Acls == {"private"}

IndexDocs == {"", "index.html"}

ErrorDocs == {"", "error.html"}

FailPoints == 0..MaxCalls

\* tags as an unordered string-to-string mapping
TagMaps ==
    UNION {{m \in [K -> {"prod", "dev"}] : \A k \in K : m[k] \in ValsOf(k)} :
           K \in SUBSET Keys}

EmptyTags == [k \in {} |-> "prod"]

-----------------------------------------------------------------------------
(* Values *)

\* an optional string: <<>> when absent, <<s>> when present
None == <<>>

Some(s) == <<s>>

\* the nil error
Nil == <<>>

\* the error the gateway returns for a failed call
APIError(c) == <<"aws.APIError", c.op, c.bucket, c.res>>

\* fmt.Errorf(ctx + "%s", err)
Errorf(ctx, e) == <<ctx>> \o e

Call(op, bucket, arg, res) == [op |-> op, bucket |-> bucket, arg |-> arg, res |-> res]

-----------------------------------------------------------------------------
(* The S3 gateway *)

Absent == [exists |-> FALSE, tags |-> <<>>, web |-> None]

NewBucket == [exists |-> TRUE, tags |-> <<>>, web |-> None]

Present(r, b) == b \in Names /\ r[b].exists

\* result of the next gateway call: the injected failure, else what the
\* remote state answers
Outcome(w, fail, op, b) ==
    IF Len(w.calls) + 1 = fail THEN "err"
    ELSE IF op = "CreateBucket" THEN "ok"
    ELSE IF Present(w.remote, b) THEN "ok"
    ELSE IF op = "GetBucketTags" THEN "ok"
    ELSE "notfound"

\* remote state after a successful call
Effect(r, op, b, arg) ==
    IF op = "CreateBucket" THEN
        IF Present(r, b) THEN r ELSE [r EXCEPT ![b] = NewBucket]
    ELSE IF ~Present(r, b) THEN r
    ELSE IF op = "DeleteBucket" THEN [r EXCEPT ![b] = Absent]
    ELSE IF op = "PutBucketTags" THEN [r EXCEPT ![b].tags = arg]
    ELSE IF op = "PutBucketWebsite" THEN [r EXCEPT ![b].web = Some(arg)]
    ELSE IF op = "DeleteBucketWebsite" THEN [r EXCEPT ![b].web = None]
    ELSE r

\* one gateway call: appended to the calls of the invocation, with its result
Issue(w, fail, op, b, arg) ==
    LET res == Outcome(w, fail, op, b)
    IN [w EXCEPT !.calls = Append(w.calls, Call(op, b, arg, res)),
                 !.remote = IF res = "ok" THEN Effect(w.remote, op, b, arg)
                            ELSE w.remote]

LastCall(w) == w.calls[Len(w.calls)]

\* sequencing: the statement that produced v has run, and the rest of the
\* function body, Rest, runs in the world v it left
Then(v, Rest(_)) == CHOOSE r \in {Rest(x) : x \in {v}} : TRUE

Failed(w) == LastCall(w).res # "ok"

-----------------------------------------------------------------------------
(* Tag helpers *)

RECURSIVE tagsFromKeys(_, _)
tagsFromKeys(m, i) ==
    IF i > Len(TagKeyOrder) THEN <<>>
    ELSE IF TagKeyOrder[i] \in DOMAIN m
         THEN <<[Key |-> TagKeyOrder[i], Value |-> m[TagKeyOrder[i]]]>>
              \o tagsFromKeys(m, i + 1)
         ELSE tagsFromKeys(m, i + 1)

\* mapping to the wire list of key/value pairs
tagsFromMapS3(m) == tagsFromKeys(m, 1)

\* wire list to mapping; a later entry of a key overrides an earlier one
RECURSIVE tagsToMapS3(_)
tagsToMapS3(ts) ==
    IF ts = <<>> THEN EmptyTags
    ELSE LET m == tagsToMapS3(SubSeq(ts, 1, Len(ts) - 1))
             t == ts[Len(ts)]
         IN [k \in (DOMAIN m) \cup {t.Key} |->
                IF k = t.Key THEN t.Value ELSE m[k]]

\* full-replace put of the desired tags, addressed by the identity
setTagsS3(w, cfg, fail) ==
    LET w1 == Issue(w, fail, "PutBucketTags", w.id, tagsFromMapS3(cfg.tags))
    IN IF Failed(w1) THEN [w1 EXCEPT !.err = APIError(LastCall(w1))]
       ELSE w1

\* the remote wire list of the bucket
TagSetOf(r, b) == IF Present(r, b) THEN r[b].tags ELSE <<>>

getTagSetS3(w, bucket, fail) ==
    LET w1 == Issue(w, fail, "GetBucketTags", bucket, <<>>)
    IN IF Failed(w1) THEN [w1 EXCEPT !.err = APIError(LastCall(w1))]
       ELSE w1

-----------------------------------------------------------------------------
(* Handlers *)

\* Read that fetches the tags and does not write them into the record
ReadKeepsTags(w, fail) ==
    LET w1 == Issue(w, fail, "HeadBucket", w.id, <<>>)
        w2 == IF LastCall(w1).res = "notfound" THEN [w1 EXCEPT !.id = ""]
              ELSE w1
        w3 == getTagSetS3(w2, w2.id, fail)
    IN IF LastCall(w1).res = "err"
       THEN [w1 EXCEPT !.err = Errorf("error reading S3 bucket ",
                                      <<w1.id>> \o APIError(LastCall(w1)))]
       ELSE w3

\* Read that returns as soon as the bucket is found to be gone
ReadReturnsOnNotFound(w, fail) ==
    LET w1 == Issue(w, fail, "HeadBucket", w.id, <<>>)
        w3 == getTagSetS3(w1, w1.id, fail)
    IN IF LastCall(w1).res = "notfound" THEN [w1 EXCEPT !.id = ""]
       ELSE IF LastCall(w1).res = "err"
       THEN [w1 EXCEPT !.err = Errorf("error reading S3 bucket ",
                                      <<w1.id>> \o APIError(LastCall(w1)))]
       ELSE IF w3.err # Nil THEN w3
       ELSE [w3 EXCEPT !.tags = tagsToMapS3(TagSetOf(w3.remote, w1.id))]

\* Read that returns success when the tag fetch failed
ReadIgnoresTagError(w, fail) ==
    LET w1 == Issue(w, fail, "HeadBucket", w.id, <<>>)
        w2 == IF LastCall(w1).res = "notfound" THEN [w1 EXCEPT !.id = ""]
              ELSE w1
        w3 == getTagSetS3(w2, w2.id, fail)
    IN IF LastCall(w1).res = "err"
       THEN [w1 EXCEPT !.err = Errorf("error reading S3 bucket ",
                                      <<w1.id>> \o APIError(LastCall(w1)))]
       ELSE IF w3.err # Nil THEN [w3 EXCEPT !.err = Nil]
       ELSE [w3 EXCEPT !.tags = tagsToMapS3(TagSetOf(w3.remote, w2.id))]

\* Read that returns the error of HeadBucket as the gateway gave it
ReadReturnsBareError(w, fail) ==
    LET w1 == Issue(w, fail, "HeadBucket", w.id, <<>>)
        w2 == IF LastCall(w1).res = "notfound" THEN [w1 EXCEPT !.id = ""]
              ELSE w1
        w3 == getTagSetS3(w2, w2.id, fail)
    IN IF LastCall(w1).res = "err"
       THEN [w1 EXCEPT !.err = APIError(LastCall(w1))]
       ELSE IF w3.err # Nil THEN w3
       ELSE [w3 EXCEPT !.tags = tagsToMapS3(TagSetOf(w3.remote, w2.id))]

\* Read that writes the tags it fetched back to the bucket
ReadRepairsTags(w, fail) ==
    LET w1 == Issue(w, fail, "HeadBucket", w.id, <<>>)
        w2 == IF LastCall(w1).res = "notfound" THEN [w1 EXCEPT !.id = ""]
              ELSE w1
        w3 == getTagSetS3(w2, w2.id, fail)
        w4 == Issue(w3, fail, "PutBucketTags", w2.id,
                    TagSetOf(w3.remote, w2.id))
    IN IF LastCall(w1).res = "err"
       THEN [w1 EXCEPT !.err = Errorf("error reading S3 bucket ",
                                      <<w1.id>> \o APIError(LastCall(w1)))]
       ELSE IF w3.err # Nil THEN w3
       ELSE [w4 EXCEPT !.tags = tagsToMapS3(TagSetOf(w3.remote, w2.id))]

resourceAwsS3BucketRead(w, fail) ==
    Then(Issue(w, fail, "HeadBucket", w.id, <<>>), LAMBDA w1 :
      IF LastCall(w1).res = "err"
      THEN [w1 EXCEPT !.err = Errorf("error reading S3 bucket ",
                                     <<w1.id>> \o APIError(LastCall(w1)))]
      ELSE
        Then(IF LastCall(w1).res = "notfound" THEN [w1 EXCEPT !.id = ""]
             ELSE w1, LAMBDA w2 :
          Then(getTagSetS3(w2, w2.id, fail), LAMBDA w3 :
            IF w3.err # Nil THEN w3
            ELSE [w3 EXCEPT
                    !.tags = tagsToMapS3(TagSetOf(w3.remote, w2.id))])))

\* updateWebsite with the error key taken from the index document
UpdateWebsiteCopiesIndex(w, cfg, fail) ==
    IF cfg.website
    THEN LET websiteConfiguration ==
                 [IndexDocument |-> IF cfg.index_document # ""
                                    THEN Some(cfg.index_document) ELSE None,
                  ErrorDocument |-> IF cfg.index_document # ""
                                    THEN Some(cfg.error_document) ELSE None]
             w1 == Issue(w, fail, "PutBucketWebsite", cfg.bucket,
                         websiteConfiguration)
         IN IF Failed(w1)
            THEN [w1 EXCEPT !.err = Errorf("Error putting S3 website: ",
                                           APIError(LastCall(w1)))]
            ELSE w1
    ELSE LET w1 == Issue(w, fail, "DeleteBucketWebsite", cfg.bucket, <<>>)
         IN IF Failed(w1)
            THEN [w1 EXCEPT !.err = Errorf("Error deleting S3 website: ",
                                           APIError(LastCall(w1)))]
            ELSE w1

\* updateWebsite that reports an error when it disables a website on a
\* bucket that has no website configuration
UpdateWebsiteStrictDelete(w, cfg, fail) ==
    IF cfg.website
    THEN LET websiteConfiguration ==
                 [IndexDocument |-> IF cfg.index_document # ""
                                    THEN Some(cfg.index_document) ELSE None,
                  ErrorDocument |-> IF cfg.error_document # ""
                                    THEN Some(cfg.error_document) ELSE None]
             w1 == Issue(w, fail, "PutBucketWebsite", cfg.bucket,
                         websiteConfiguration)
         IN IF Failed(w1)
            THEN [w1 EXCEPT !.err = Errorf("Error putting S3 website: ",
                                           APIError(LastCall(w1)))]
            ELSE w1
    ELSE LET w1 == Issue(w, fail, "DeleteBucketWebsite", cfg.bucket, <<>>)
         IN IF Failed(w1) \/ (Present(w.remote, cfg.bucket)
                                /\ w.remote[cfg.bucket].web = None)
            THEN [w1 EXCEPT !.err = Errorf("Error deleting S3 website: ",
                                           APIError(LastCall(w1)))]
            ELSE w1

\* updateWebsite that returns success when the delete of the website failed
UpdateWebsiteIgnoresDeleteError(w, cfg, fail) ==
    IF cfg.website
    THEN LET websiteConfiguration ==
                 [IndexDocument |-> IF cfg.index_document # ""
                                    THEN Some(cfg.index_document) ELSE None,
                  ErrorDocument |-> IF cfg.error_document # ""
                                    THEN Some(cfg.error_document) ELSE None]
             w1 == Issue(w, fail, "PutBucketWebsite", cfg.bucket,
                         websiteConfiguration)
         IN IF Failed(w1)
            THEN [w1 EXCEPT !.err = Errorf("Error putting S3 website: ",
                                           APIError(LastCall(w1)))]
            ELSE w1
    ELSE Issue(w, fail, "DeleteBucketWebsite", cfg.bucket, <<>>)

updateWebsite(w, cfg, fail) ==
    IF cfg.website
    THEN LET websiteConfiguration ==
                 [IndexDocument |-> IF cfg.index_document # ""
                                    THEN Some(cfg.index_document) ELSE None,
                  ErrorDocument |-> IF cfg.error_document # ""
                                    THEN Some(cfg.error_document) ELSE None]
             w1 == Issue(w, fail, "PutBucketWebsite", cfg.bucket,
                         websiteConfiguration)
         IN IF Failed(w1)
            THEN [w1 EXCEPT !.err = Errorf("Error putting S3 website: ",
                                           APIError(LastCall(w1)))]
            ELSE w1
    ELSE LET w1 == Issue(w, fail, "DeleteBucketWebsite", cfg.bucket, <<>>)
         IN IF Failed(w1)
            THEN [w1 EXCEPT !.err = Errorf("Error deleting S3 website: ",
                                           APIError(LastCall(w1)))]
            ELSE w1

\* Update with the website reconciled before the tags
UpdateWebsiteFirst(w, cfg, fail) ==
    LET w1 == updateWebsite(w, cfg, fail)
        w2 == setTagsS3(w1, cfg, fail)
    IN IF w1.err # Nil THEN w1
       ELSE IF w2.err # Nil THEN w2
       ELSE resourceAwsS3BucketRead(w2, fail)

\* Update that goes on to the Read when the website call failed
UpdateIgnoresWebsiteError(w, cfg, fail) ==
    LET w1 == setTagsS3(w, cfg, fail)
        w2 == updateWebsite(w1, cfg, fail)
    IN IF w1.err # Nil THEN w1
       ELSE resourceAwsS3BucketRead([w2 EXCEPT !.err = Nil], fail)

\* Update that tries the tag put a second time when it failed
UpdateRetriesTags(w, cfg, fail) ==
    LET w0 == setTagsS3(w, cfg, fail)
        w1 == IF w0.err # Nil THEN setTagsS3([w0 EXCEPT !.err = Nil], cfg, fail)
              ELSE w0
        w2 == updateWebsite(w1, cfg, fail)
    IN IF w1.err # Nil THEN w1
       ELSE IF w2.err # Nil THEN w2
       ELSE resourceAwsS3BucketRead(w2, fail)

\* Update that refreshes the record after the tags, without the website
UpdateSkipsWebsite(w, cfg, fail) ==
    Then(setTagsS3(w, cfg, fail), LAMBDA w1 :
      IF w1.err # Nil THEN w1
      ELSE resourceAwsS3BucketRead(w1, fail))

resourceAwsS3BucketUpdate(w, cfg, fail) ==
    Then(setTagsS3(w, cfg, fail), LAMBDA w1 :
      IF w1.err # Nil THEN w1
      ELSE
        Then(updateWebsite(w1, cfg, fail), LAMBDA w2 :
          IF w2.err # Nil THEN w2
          ELSE resourceAwsS3BucketRead(w2, fail)))

\* Create that states the location constraint for every region
CreateAlwaysSetsLocation(w, cfg, region, fail) ==
    LET location == Some(region)
        w1 == Issue(w, fail, "CreateBucket", cfg.bucket,
                    [ACL |-> cfg.acl, LocationConstraint |-> location])
    IN IF Failed(w1)
       THEN [w1 EXCEPT !.err = Errorf("Error creating S3 bucket: ",
                                      APIError(LastCall(w1)))]
       ELSE resourceAwsS3BucketUpdate([w1 EXCEPT !.id = cfg.bucket], cfg, fail)

\* Create that assigns the identity before the bucket is created
CreateSetsIdFirst(w, cfg, region, fail) ==
    LET location == IF region # "us-east-1" THEN Some(region) ELSE None
        w1 == Issue([w EXCEPT !.id = cfg.bucket], fail, "CreateBucket",
                    cfg.bucket,
                    [ACL |-> cfg.acl, LocationConstraint |-> location])
    IN IF Failed(w1)
       THEN [w1 EXCEPT !.err = Errorf("Error creating S3 bucket: ",
                                      APIError(LastCall(w1)))]
       ELSE resourceAwsS3BucketUpdate(w1, cfg, fail)

\* Create that refreshes the record without converging tags and website
CreateSkipsUpdate(w, cfg, region, fail) ==
    LET location == IF region # "us-east-1" THEN Some(region) ELSE None
        w1 == Issue(w, fail, "CreateBucket", cfg.bucket,
                    [ACL |-> cfg.acl, LocationConstraint |-> location])
    IN IF Failed(w1)
       THEN [w1 EXCEPT !.err = Errorf("Error creating S3 bucket: ",
                                      APIError(LastCall(w1)))]
       ELSE resourceAwsS3BucketRead([w1 EXCEPT !.id = cfg.bucket], fail)

resourceAwsS3BucketCreate(w, cfg, region, fail) ==
    LET location == IF region # "us-east-1" THEN Some(region) ELSE None
        w1 == Issue(w, fail, "CreateBucket", cfg.bucket,
                    [ACL |-> cfg.acl, LocationConstraint |-> location])
    IN IF Failed(w1)
       THEN [w1 EXCEPT !.err = Errorf("Error creating S3 bucket: ",
                                      APIError(LastCall(w1)))]
       ELSE resourceAwsS3BucketUpdate([w1 EXCEPT !.id = cfg.bucket], cfg, fail)

\* Delete that takes a bucket that is already gone for deleted
DeleteAcceptsNotFound(w, fail) ==
    LET w1 == Issue(w, fail, "DeleteBucket", w.id, <<>>)
    IN IF LastCall(w1).res = "err"
       THEN [w1 EXCEPT !.err = APIError(LastCall(w1))]
       ELSE w1

\* Delete that clears the identity once the bucket is deleted
DeleteClearsId(w, fail) ==
    LET w1 == Issue(w, fail, "DeleteBucket", w.id, <<>>)
    IN IF Failed(w1) THEN [w1 EXCEPT !.err = APIError(LastCall(w1))]
       ELSE [w1 EXCEPT !.id = ""]

resourceAwsS3BucketDelete(w, fail) ==
    LET w1 == Issue(w, fail, "DeleteBucket", w.id, <<>>)
    IN IF Failed(w1) THEN [w1 EXCEPT !.err = APIError(LastCall(w1))]
       ELSE w1

-----------------------------------------------------------------------------
(* The resource under its orchestrator *)

\* desired fields when "bucket" may be changed in place on an existing record
CfgsRenameInPlace(ident) ==
    [bucket : Names,
     acl : Acls,
     website : BOOLEAN,
     index_document : IndexDocs,
     error_document : ErrorDocs,
     tags : TagMaps]

\* the desired fields of the schema; "bucket" is ForceNew, so a record that
\* has an identity is only ever handed its own bucket name
Cfgs(ident) ==
    [bucket : IF ident = "" THEN Names ELSE {ident},
     acl : Acls,
     website : BOOLEAN,
     index_document : IndexDocs,
     error_document : ErrorDocs,
     tags : TagMaps]

NoCfg == [bucket |-> "", acl |-> "private", website |-> FALSE,
          index_document |-> "", error_document |-> "", tags |-> EmptyTags]

NoOp == [op |-> "none", cfg |-> NoCfg, region |-> "", calls |-> <<>>,
         err |-> Nil, after |-> <<>>]

\* the world a handler is invoked in
World == [remote |-> remote, calls |-> <<>>, id |-> id, tags |-> tags,
          err |-> Nil]

\* the handler returns: the record and the remote state are as it left them,
\* and the orchestrator sees its calls and its error
Done(op, cfg, region, w) ==
    /\ remote' = w.remote
    /\ id' = w.id
    /\ tags' = w.tags
    /\ last' = [op |-> op, cfg |-> cfg, region |-> region, calls |-> w.calls,
                err |-> w.err, after |-> w.remote]

Init ==
    /\ remote = [b \in Names |-> Absent]
    /\ id = ""
    /\ tags = EmptyTags
    /\ last = NoOp
    /\ prev = NoOp

\* one lifecycle entry point runs per reconciliation pass, to completion
Idle == last.op = "none"

Create ==
    /\ Idle
    /\ \E cfg \in Cfgs(id), region \in Regions, fail \in FailPoints :
           Done("Create", cfg, region,
                resourceAwsS3BucketCreate(World, cfg, region, fail))
    /\ UNCHANGED prev

Update ==
    /\ Idle
    /\ \E cfg \in Cfgs(id), fail \in FailPoints :
           Done("Update", cfg, "", resourceAwsS3BucketUpdate(World, cfg, fail))
    /\ UNCHANGED prev

Read ==
    /\ Idle
    /\ \E fail \in FailPoints :
           Done("Read", NoCfg, "", resourceAwsS3BucketRead(World, fail))
    /\ UNCHANGED prev

Delete ==
    /\ Idle
    /\ \E fail \in FailPoints :
           Done("Delete", NoCfg, "", resourceAwsS3BucketDelete(World, fail))
    /\ UNCHANGED prev

\* the orchestrator takes the result of the pass; the next pass may start
Return ==
    /\ ~Idle
    /\ last' = NoOp
    /\ UNCHANGED <<remote, id, tags, prev>>

Next == Create \/ Update \/ Read \/ Delete \/ Return

Spec == Init /\ [][Next]_vars

-----------------------------------------------------------------------------
(* The sub-reconcilers run one after another on an existing bucket, each   *)
(* run with inputs of its own; prev and last are the two latest runs, and  *)
(* prev.after is the remote state the latest run started from.             *)

SubBucket == "b1"

WebConfigs ==
    {None} \cup {Some([IndexDocument |-> i, ErrorDocument |-> e]) :
                    i \in {None, Some("index.html")},
                    e \in {None, Some("error.html")}}

ExistingBucket(m, web) ==
    [b \in Names |->
        IF b = SubBucket
        THEN [exists |-> TRUE, tags |-> tagsFromMapS3(m), web |-> web]
        ELSE Absent]

SubInit(ms, webs) ==
    /\ \E m \in ms, web \in webs : remote = ExistingBucket(m, web)
    /\ id = SubBucket
    /\ tags = EmptyTags
    /\ last = [NoOp EXCEPT !.after = remote]
    /\ prev = NoOp

\* the tag reconciler of Update
ReconcileTags ==
    /\ \E m \in TagMaps, fail \in 0..1 :
           LET cfg == [NoCfg EXCEPT !.bucket = SubBucket, !.tags = m]
           IN Done("setTagsS3", cfg, "", setTagsS3(World, cfg, fail))
    /\ prev' = last

\* the tag fetch of Read, with the existence check before it
Refresh ==
    /\ \E fail \in 0..2 :
           Done("Read", NoCfg, "", resourceAwsS3BucketRead(World, fail))
    /\ prev' = last

TagsInit == SubInit(TagMaps, {None})

TagsNext == ReconcileTags \/ Refresh

SpecTags == TagsInit /\ [][TagsNext]_vars

\* the website reconciler of Update
ReconcileWebsite ==
    /\ \E website \in BOOLEAN, i \in IndexDocs, e \in ErrorDocs,
          fail \in 0..1 :
           LET cfg == [NoCfg EXCEPT !.bucket = SubBucket,
                                    !.website = website,
                                    !.index_document = i,
                                    !.error_document = e]
           IN Done("updateWebsite", cfg, "", updateWebsite(World, cfg, fail))
    /\ prev' = last

WebInit == SubInit({EmptyTags}, WebConfigs)

WebNext == ReconcileWebsite

SpecWeb == WebInit /\ [][WebNext]_vars

-----------------------------------------------------------------------------
(* Update retried with one desired state on an existing bucket: passes     *)
(* that fail at some sub-step, and passes in which no gateway call fails.  *)
(* The desired state is fixed at the start; last.cfg carries it.  A failed *)
(* pass is always retried and the gateway does not fail forever, so a      *)
(* clean pass that would change something is eventually run.               *)

RetryInit ==
    /\ \E cfg \in Cfgs(SubBucket), m \in TagMaps, web \in WebConfigs :
           /\ remote = ExistingBucket(m, web)
           /\ last = [NoOp EXCEPT !.cfg = cfg, !.after = remote]
    /\ id = SubBucket
    /\ tags = EmptyTags
    /\ prev = NoOp

FailedPass ==
    /\ \E fail \in 1..MaxCalls :
           LET w == resourceAwsS3BucketUpdate(World, last.cfg, fail)
           IN /\ w.err # Nil
              /\ Done("Update", last.cfg, "", w)
    /\ prev' = last

CleanPass ==
    /\ \E w \in {resourceAwsS3BucketUpdate(World, last.cfg, 0)} :
           Done("Update", last.cfg, "", w)
    /\ prev' = last

RetryNext == FailedPass \/ CleanPass

SpecRetry == RetryInit /\ [][RetryNext]_vars /\ WF_vars(CleanPass)

-----------------------------------------------------------------------------
(* Read repeated on a record: the bucket exists with some tags, or is gone *)
(* (and then the identity may already have been cleared); the observed     *)
(* tags are whatever an earlier pass left.                                 *)

ReadInit ==
    /\ \E m \in TagMaps, gone \in BOOLEAN, ident \in {SubBucket, ""} :
           /\ ident = "" => gone
           /\ gone => m = EmptyTags
           /\ remote = IF gone THEN [b \in Names |-> Absent]
                       ELSE ExistingBucket(m, None)
           /\ id = ident
    /\ tags \in TagMaps
    /\ last = [NoOp EXCEPT !.after = remote]
    /\ prev = NoOp

ReadNext == Refresh

SpecRead == ReadInit /\ [][ReadNext]_vars

-----------------------------------------------------------------------------
(* Properties *)

calls == last.calls

Tail2(cs) == SubSeq(cs, 2, Len(cs))

\* the calls Update itself issued in the latest pass: all of an Update's,
\* and those after the CreateBucket of a Create
UpdateCalls ==
    IF last.op = "Update" THEN calls
    ELSE IF last.op = "Create" /\ Len(calls) >= 1 THEN Tail2(calls)
    ELSE <<>>

Rank(op) ==
    CASE op = "PutBucketTags" -> 1
      [] op = "PutBucketWebsite" -> 2
      [] op = "DeleteBucketWebsite" -> 2
      [] op = "HeadBucket" -> 3
      [] op = "GetBucketTags" -> 4
      [] OTHER -> 0

IsWebsiteCall(c) == c.op \in {"PutBucketWebsite", "DeleteBucketWebsite"}

\* C1: within one Update the gateway calls come in the fixed order tag put,
\* website put-or-delete, HeadBucket, GetBucketTags: each call Update issues
\* is one of these, and of any two calls the earlier one has the lower rank.
C1_UpdateOrder ==
    \A j \in DOMAIN UpdateCalls :
        /\ Rank(UpdateCalls[j].op) >= 1
        /\ \A i \in 1..(j - 1) :
               Rank(UpdateCalls[i].op) < Rank(UpdateCalls[j].op)

C1_Witness ==
    /\ last.op = "Update"
    /\ last.err = Nil
    /\ Len(calls) = 4
    /\ calls[1].op = "PutBucketTags"
    /\ IsWebsiteCall(calls[2])
    /\ calls[3].op = "HeadBucket"
    /\ calls[4].op = "GetBucketTags"

\* C2: Update fails fast.  If the tag put fails, Update returns an error and
\* issues no further call; if the tag put succeeds and the website call
\* fails, Update returns an error, issues neither HeadBucket nor
\* GetBucketTags, and the remote tags are the ones the put wrote.
C2_FailFast ==
    last.op = "Update" =>
        /\ Len(calls) >= 1 /\ calls[1].op = "PutBucketTags"
        /\ calls[1].res # "ok" => (last.err # Nil /\ Len(calls) = 1)
        /\ (calls[1].res = "ok" /\ Len(calls) >= 2) => IsWebsiteCall(calls[2])
        /\ (calls[1].res = "ok" /\ calls[2].res # "ok") =>
               /\ last.err # Nil
               /\ Len(calls) = 2
               /\ TagSetOf(remote, calls[1].bucket) = calls[1].arg
               /\ calls[1].arg = tagsFromMapS3(last.cfg.tags)

C2_Witness ==
    /\ last.op = "Update"
    /\ Len(calls) = 2
    /\ calls[1].res = "ok"
    /\ calls[2].res = "err"
    /\ last.err # Nil
    /\ last.cfg.tags # EmptyTags
    /\ TagSetOf(remote, id) = tagsFromMapS3(last.cfg.tags)

\* C3 as stated: whenever Create, invoked on a record without identity,
\* returns an error, the identity is still empty after the call and the
\* observed tags are as before.
C3_NoIdentityOnAnyError ==
    [][(last'.op = "Create" /\ id = "" /\ last'.err # Nil)
          => (id' = "" /\ tags' = tags)]_vars

\* C3 amended: whenever Create returns an error because CreateBucket failed,
\* no identity is assigned and nothing is persisted: CreateBucket is the only
\* call issued, and identity, observed tags and remote state are as before
\* the call.  When CreateBucket succeeded and a later step fails, Create
\* returns the error with the identity already set to the bucket name.
C3_NoIdentityWhenCreateBucketFails ==
    [][(last'.op = "Create" /\ last'.err # Nil)
          => /\ Len(last'.calls) >= 1
             /\ last'.calls[1].op = "CreateBucket"
             /\ last'.calls[1].res # "ok" =>
                    /\ Len(last'.calls) = 1
                    /\ id' = id
                    /\ tags' = tags
                    /\ remote' = remote
             /\ last'.calls[1].res = "ok" =>
                    /\ Len(last'.calls) >= 2
                    /\ id' = last'.cfg.bucket]_vars

C3_Witness ==
    /\ last.op = "Create"
    /\ last.err # Nil
    /\ Len(calls) = 1
    /\ calls[1].op = "CreateBucket"
    /\ calls[1].res = "err"
    /\ id = ""
    /\ ~Present(remote, last.cfg.bucket)

OpsOf(cs) == [i \in DOMAIN cs |-> cs[i].op]

\* C4: a Create that returns success has issued exactly CreateBucket, then
\* PutBucketTags with the full desired mapping, then the website call that
\* the website field selects, then HeadBucket, then GetBucketTags, each once;
\* the tag put is already addressed to the bucket name (the identity was set
\* before it); afterwards the identity is the desired bucket name and the
\* observed tags are the desired tags.
C4_CreateConverges ==
    (last.op = "Create" /\ last.err = Nil) =>
        /\ OpsOf(calls) =
               <<"CreateBucket", "PutBucketTags",
                 IF last.cfg.website THEN "PutBucketWebsite"
                 ELSE "DeleteBucketWebsite",
                 "HeadBucket", "GetBucketTags">>
        /\ \A i \in DOMAIN calls : calls[i].bucket = last.cfg.bucket
        /\ calls[2].arg = tagsFromMapS3(last.cfg.tags)
        /\ Len(calls[2].arg) = Cardinality(DOMAIN last.cfg.tags)
        /\ id = last.cfg.bucket
        /\ tags = last.cfg.tags

C4_Witness ==
    /\ last.op = "Create"
    /\ last.err = Nil
    /\ last.region = "us-east-1"
    /\ last.cfg = [bucket |-> "b1", acl |-> "private", website |-> TRUE,
                   index_document |-> "index.html", error_document |-> "",
                   tags |-> [k \in {"env"} |-> "prod"]]
    /\ calls[1].arg.LocationConstraint = None
    /\ calls[2].arg = <<[Key |-> "env", Value |-> "prod"]>>
    /\ calls[3].arg = [IndexDocument |-> Some("index.html"),
                       ErrorDocument |-> None]
    /\ id = "b1"
    /\ tags = [k \in {"env"} |-> "prod"]

\* C5: when Read is called with a non-empty identity and HeadBucket reports
\* not-found, Read clears the identity, still issues GetBucketTags, and
\* returns an error only if that tag fetch failed (then the error of the tag
\* fetch, not one for the not-found result).
C5_DriftDetection ==
    [][(/\ last'.op = "Read"
        /\ id # ""
        /\ Len(last'.calls) >= 1
        /\ last'.calls[1].res = "notfound")
          => /\ last'.calls[1].op = "HeadBucket"
             /\ last'.calls[1].bucket = id
             /\ id' = ""
             /\ Len(last'.calls) = 2
             /\ last'.calls[2].op = "GetBucketTags"
             /\ last'.calls[2].res = "ok" => last'.err = Nil
             /\ last'.calls[2].res # "ok" =>
                    last'.err = APIError(last'.calls[2])]_vars

C5_Witness ==
    /\ last.op = "Read"
    /\ Len(calls) = 2
    /\ calls[1].op = "HeadBucket"
    /\ calls[1].bucket # ""
    /\ calls[1].res = "notfound"
    /\ calls[2].op = "GetBucketTags"
    /\ id = ""
    /\ last.err = Nil

\* what the next tag fetch of the bucket returns, as a mapping
FetchTags(b) == tagsToMapS3(TagSetOf(remote, b))

TagsPutOk(r) == r.op = "setTagsS3" /\ r.err = Nil

\* C6: full replace of tags on an existing bucket.  After a successful tag
\* reconcile with M1 followed by a successful tag reconcile with M2, the next
\* tag fetch returns exactly M2 (no key of M1 outside M2 survives, and all
\* tags are gone when M2 is empty); and a successful Read that follows a
\* successful tag reconcile with M2, whatever the tags were before it, has
\* fetched the tags and written exactly M2 into the observed tags.
C6_FullReplace ==
    /\ (TagsPutOk(prev) /\ TagsPutOk(last)) =>
           /\ FetchTags(SubBucket) = last.cfg.tags
           /\ \A k \in DOMAIN prev.cfg.tags :
                  k \notin DOMAIN last.cfg.tags =>
                      k \notin DOMAIN FetchTags(SubBucket)
           /\ last.cfg.tags = EmptyTags => TagSetOf(remote, SubBucket) = <<>>
    /\ (TagsPutOk(prev) /\ last.op = "Read" /\ last.err = Nil) =>
           /\ calls[Len(calls)].op = "GetBucketTags"
           /\ tags = prev.cfg.tags

C6_Witness ==
    /\ TagsPutOk(prev)
    /\ TagsPutOk(last)
    /\ prev.cfg.tags = [k \in {"env"} |-> "prod"]
    /\ last.cfg.tags = [k \in {"team"} |-> "prod"]
    /\ TagSetOf(prev.after, SubBucket) = <<[Key |-> "env", Value |-> "prod"]>>
    /\ TagSetOf(remote, SubBucket) = <<[Key |-> "team", Value |-> "prod"]>>

\* the optional field a document name turns into
DocOpt(doc) == IF doc = "" THEN None ELSE Some(doc)

\* C7: the website reconciler decides from the desired fields only.  With
\* website enabled it issues exactly one call, a PutBucketWebsite whose index
\* suffix is present iff index_document is non-empty and whose error key is
\* present iff error_document is non-empty; with website disabled it issues
\* exactly one call, a DeleteBucketWebsite; whatever the remote website
\* configuration was before.
C7_WebsiteDecision ==
    last.op = "updateWebsite" =>
        /\ Len(calls) = 1
        /\ calls[1].bucket = last.cfg.bucket
        /\ last.cfg.website =>
               /\ calls[1].op = "PutBucketWebsite"
               /\ (calls[1].arg.IndexDocument # None)
                      <=> (last.cfg.index_document # "")
               /\ (calls[1].arg.ErrorDocument # None)
                      <=> (last.cfg.error_document # "")
               /\ calls[1].arg.IndexDocument = DocOpt(last.cfg.index_document)
               /\ calls[1].arg.ErrorDocument = DocOpt(last.cfg.error_document)
        /\ ~last.cfg.website => calls[1].op = "DeleteBucketWebsite"

C7_Witness ==
    /\ last.op = "updateWebsite"
    /\ ~last.cfg.website
    /\ prev.after[SubBucket].web # None
    /\ OpsOf(calls) = <<"DeleteBucketWebsite">>
    /\ last.err = Nil
    /\ remote[SubBucket].web = None

\* C8: Create issues CreateBucket with no location constraint when the
\* configured region is us-east-1, and with the configured region as the
\* location constraint for every other region.
C8_RegionRule ==
    last.op = "Create" =>
        /\ Len(calls) >= 1
        /\ calls[1].op = "CreateBucket"
        /\ calls[1].bucket = last.cfg.bucket
        /\ last.region = "us-east-1" =>
               calls[1].arg.LocationConstraint = None
        /\ last.region # "us-east-1" =>
               calls[1].arg.LocationConstraint = Some(last.region)

C8_Witness ==
    /\ last.op = "Create"
    /\ last.region = "eu-west-1"
    /\ calls[1].op = "CreateBucket"
    /\ calls[1].res = "ok"
    /\ calls[1].arg.LocationConstraint = <<"eu-west-1">>

\* C9: Delete issues exactly one gateway call, a DeleteBucket for the
\* identity; it returns success iff that call succeeds, and otherwise the
\* error of the gateway as it is, a not-found result included.
C9_Delete ==
    [][last'.op = "Delete"
          => /\ Len(last'.calls) = 1
             /\ last'.calls[1].op = "DeleteBucket"
             /\ last'.calls[1].bucket = id
             /\ (last'.err = Nil) <=> (last'.calls[1].res = "ok")
             /\ last'.calls[1].res # "ok" =>
                    last'.err = APIError(last'.calls[1])]_vars

C9_Witness ==
    /\ last.op = "Delete"
    /\ OpsOf(calls) = <<"DeleteBucket">>
    /\ calls[1].bucket = id
    /\ id # ""
    /\ calls[1].res = "ok"
    /\ last.err = Nil
    /\ ~Present(remote, id)

\* a run of the website reconciler whose gateway call was answered from the
\* remote state (no transport failure)
WebsiteRun(r) ==
    r.op = "updateWebsite" /\ \A i \in DOMAIN r.calls : r.calls[i].res # "err"

C11_PreconditionsFailLoudly ==
    [][(\/ last'.op \in {"Update", "Delete"} /\ id = ""
        \/ last'.op = "Create" /\ id # "")
          => last'.err # Nil]_vars

HasCall(cs, op) == \E i \in DOMAIN cs : cs[i].op = op

\* C12 as stated: whatever HeadBucket answered (exists, not-found, other
\* error), Read issues GetBucketTags, and a failed tag fetch makes Read
\* return an error.
C12_TagFetchAlways ==
    last.op = "Read" =>
        /\ HasCall(calls, "GetBucketTags")
        /\ \A i \in DOMAIN calls :
               (calls[i].op = "GetBucketTags" /\ calls[i].res # "ok")
                   => last.err # Nil

\* C12 amended: when HeadBucket answers exists or not-found, Read issues
\* GetBucketTags, and a failed tag fetch makes Read return an error; when
\* HeadBucket fails with another error, Read returns an error and issues no
\* GetBucketTags.
C12_TagFetchUnlessHeadError ==
    last.op = "Read" =>
        /\ Len(calls) >= 1
        /\ calls[1].op = "HeadBucket"
        /\ calls[1].res \in {"ok", "notfound"} =>
               /\ Len(calls) = 2
               /\ calls[2].op = "GetBucketTags"
               /\ calls[2].res # "ok" => last.err # Nil
        /\ calls[1].res = "err" =>
               /\ Len(calls) = 1
               /\ last.err # Nil

C12_Witness ==
    /\ last.op = "Read"
    /\ Len(calls) = 2
    /\ calls[1].op = "HeadBucket"
    /\ calls[1].res = "ok"
    /\ calls[2].op = "GetBucketTags"
    /\ calls[2].res = "err"
    /\ last.err = APIError(calls[2])

\* C13: when HeadBucket fails in Read with an error other than not-found,
\* Read returns an error made of the identity and the error of the gateway,
\* issues nothing else, and leaves identity and observed tags as they were.
C13_HeadErrorLeavesRecord ==
    [][(/\ last'.op = "Read"
        /\ Len(last'.calls) >= 1
        /\ last'.calls[1].res = "err")
          => /\ last'.calls[1].op = "HeadBucket"
             /\ Len(last'.calls) = 1
             /\ last'.err = <<"error reading S3 bucket ", id>>
                               \o APIError(last'.calls[1])
             /\ id' = id
             /\ tags' = tags
             /\ remote' = remote]_vars

C13_Witness ==
    /\ last.op = "Read"
    /\ Len(calls) = 1
    /\ calls[1].op = "HeadBucket"
    /\ calls[1].res = "err"
    /\ id # ""
    /\ tags # EmptyTags
    /\ last.err = <<"error reading S3 bucket ", id, "aws.APIError",
                    "HeadBucket", id, "err">>

\* the pass met a not-found answer of HeadBucket
HeadNotFound(cs) ==
    \E i \in DOMAIN cs : cs[i].op = "HeadBucket" /\ cs[i].res = "notfound"

\* C14: identity transitions.  The identity goes from empty to non-empty only
\* in a Create whose CreateBucket succeeded (and then to the bucket name);
\* from non-empty to empty only in a Read whose HeadBucket answered
\* not-found; it never goes from one non-empty value to another; Delete never
\* changes it, and Update only through the not-found of the Read it ends with.
C14_IdentityTransitions ==
    [][/\ (id = "" /\ id' # "") =>
              /\ last'.op = "Create"
              /\ last'.calls[1].op = "CreateBucket"
              /\ last'.calls[1].res = "ok"
              /\ id' = last'.cfg.bucket
       /\ (id # "" /\ id' = "") =>
              /\ last'.op \in {"Read", "Update", "Create"}
              /\ HeadNotFound(last'.calls)
       /\ (id # "" /\ id' # "") => id' = id
       /\ last'.op = "Delete" => id' = id
       /\ (last'.op = "Update" /\ id' # id) =>
              (id' = "" /\ HeadNotFound(last'.calls))]_vars

C14_Witness ==
    /\ last.op = "Delete"
    /\ OpsOf(calls) = <<"DeleteBucket">>
    /\ calls[1].res = "notfound"
    /\ calls[1].bucket = id
    /\ id # ""

\* a call that ends the pass when it is not the last: it failed, and it is
\* not the not-found answer of HeadBucket
Fatal(c) == c.res # "ok" /\ ~(c.op = "HeadBucket" /\ c.res = "notfound")

\* C15: no internal retry.  Within one invocation of a lifecycle operation
\* each kind of gateway call is issued at most once, and no call is issued
\* after a call that failed, the not-found of HeadBucket excepted.
C15_NoRetry ==
    last.op \in {"Create", "Update", "Read", "Delete"} =>
        /\ \A i, j \in DOMAIN calls : i # j => calls[i].op # calls[j].op
        /\ \A i \in DOMAIN calls : Fatal(calls[i]) => i = Len(calls)

C15_Witness ==
    /\ last.op = "Create"
    /\ OpsOf(calls) = <<"CreateBucket", "PutBucketTags", "PutBucketWebsite">>
    /\ calls[3].res = "err"
    /\ last.err # Nil

\* C16: no error is swallowed.  A lifecycle operation that returns success
\* has issued no call that failed, the not-found of HeadBucket excepted.
C16_NoSwallowedError ==
    (last.op \in {"Create", "Update", "Read", "Delete"} /\ last.err = Nil) =>
        \A i \in DOMAIN calls : ~Fatal(calls[i])

C16_Witness ==
    /\ last.op = "Update"
    /\ OpsOf(calls) = <<"PutBucketTags", "DeleteBucketWebsite",
                        "HeadBucket", "GetBucketTags">>
    /\ calls[4].res = "err"
    /\ last.err = APIError(calls[4])

\* the remote website configuration the desired fields determine
WebsiteOf(cfg) ==
    IF cfg.website
    THEN Some([IndexDocument |-> DocOpt(cfg.index_document),
               ErrorDocument |-> DocOpt(cfg.error_document)])
    ELSE None

ConvergedTo(r, cfg) ==
    /\ Present(r, cfg.bucket)
    /\ tagsToMapS3(r[cfg.bucket].tags) = cfg.tags
    /\ r[cfg.bucket].tags = tagsFromMapS3(cfg.tags)
    /\ r[cfg.bucket].web = WebsiteOf(cfg)

Converged == ConvergedTo(remote, last.cfg)

\* C17: convergence under retry, for an existing bucket and a fixed desired
\* state.  After any sequence of failed Update passes, from any remote tags
\* and website configuration, a pass in which every gateway call succeeds
\* leaves the remote tags equal to the desired tags and the remote website
\* configuration the one the desired fields determine; and when failed passes
\* are retried and the gateway stops failing, this state is reached and kept.
C17_Convergence ==
    /\ []((last.op = "Update" /\ last.err = Nil) => Converged)
    /\ <>[]Converged

C17_Witness ==
    /\ prev.op = "Update"
    /\ prev.err # Nil
    /\ Len(prev.calls) = 2
    /\ prev.calls[1].res = "ok"
    /\ ~ConvergedTo(prev.after, last.cfg)
    /\ last.op = "Update"
    /\ last.cfg = prev.cfg
    /\ last.err = Nil
    /\ \A i \in DOMAIN calls : calls[i].res = "ok"
    /\ Converged

\* the answers the gateway gave to the calls of a pass
AnswersOf(r) == [i \in DOMAIN r.calls |-> r.calls[i].res]

\* C18: Read has no remote side effect.  It issues only HeadBucket and
\* GetBucketTags and leaves the remote state as it was; and a Read that
\* follows a Read on the unchanged remote state, the gateway answering as it
\* did the first time, leaves the identity and the observed tags of the first
\* Read and returns what the first Read returned.
C18_ReadIsPure ==
    [][last'.op = "Read"
          => /\ \A i \in DOMAIN last'.calls :
                    last'.calls[i].op \in {"HeadBucket", "GetBucketTags"}
             /\ remote' = remote
             /\ last'.after = remote
             /\ (last.op = "Read" /\ AnswersOf(last') = AnswersOf(last)) =>
                    /\ id' = id
                    /\ tags' = tags
                    /\ last'.err = last.err]_vars

C18_Witness ==
    /\ prev.op = "Read"
    /\ last.op = "Read"
    /\ AnswersOf(prev) = <<"notfound", "ok">>
    /\ AnswersOf(last) = <<"notfound", "ok">>
    /\ prev.calls[1].bucket = SubBucket
    /\ prev.err = Nil
    /\ last.err = Nil
    /\ prev.after = remote
    /\ id = ""
    /\ tags = EmptyTags

\* C19: every gateway call issued by one Read addresses the identity the
\* Read was invoked with; the GetBucketTags call after a not-found existence
\* check is addressed to that identity and never to the empty identity.
C19_ReadAddressesIdentity ==
    [][(last'.op = "Read" /\ id # "")
          => \A i \in DOMAIN last'.calls : last'.calls[i].bucket = id]_vars

IsTagCall(c) == c.op = "PutBucketTags"

\* C20: the identity is empty or equal to the desired bucket name, before and
\* after every Create and Update, so that within any Update the tag call
\* (addressed by the identity) and the website call (addressed by the desired
\* bucket field) target the same bucket.
C20_IdentityIsBucket ==
    [][last'.op \in {"Create", "Update"}
          => /\ id \in {"", last'.cfg.bucket}
             /\ id' \in {"", last'.cfg.bucket}
             /\ \A i, j \in DOMAIN last'.calls :
                    (IsTagCall(last'.calls[i]) /\ IsWebsiteCall(last'.calls[j]))
                        => last'.calls[i].bucket = last'.calls[j].bucket]_vars

C20_Witness ==
    /\ last.op = "Update"
    /\ last.cfg.bucket = "b2"
    /\ id = "b2"
    /\ \E i, j \in DOMAIN calls :
           /\ IsTagCall(calls[i])
           /\ IsWebsiteCall(calls[j])
           /\ calls[i].bucket = "b2"
           /\ calls[j].bucket = "b2"

====
